---------------------------- MODULE Spec2Model ----------------------------
(***************************************************************************)
(* Model of sonas_client.SonasClient (src/sonas_client/client.py): the     *)
(* lazily cached bearer token (login, _get_headers), the streaming session *)
(* stream_prices (connect, batched SUBSCRIBE messages, receive loop,       *)
(* except clauses) and stop_stream_prices.                                 *)
(*                                                                         *)
(* One caller thread runs the client's operations one statement at a time; *)
(* stop_stream_prices may be called from another execution context between *)
(* any two statements.  The websocket server, the token endpoint and the   *)
(* caller's callbacks are the environment: every outcome they can produce  *)
(* is chosen nondeterministically.  log[t] is a history variable: the      *)
(* network operations and callback invocations of the operation thread t   *)
(* is running, in the order they happened.                                 *)
(***************************************************************************)
EXTENDS Integers, Sequences, FiniteSets, TLC

VARIABLES
    token,           \* self._token: None or the cached bearer token
    stop_streaming,  \* self._stop_streaming
    issued,          \* history: how many logins the token endpoint has answered with 200
    runs,            \* history: operations invoked so far (bounds the model)
    pc,              \* pc[t]: the statement thread t executes next
    op,              \* op[t]: the public method thread t is in
    products,        \* products[t], terms[t]: arguments of stream_prices
    terms,
    subscriptions,   \* the local list built at lines 116-123
    idx,             \* the loop variable i of line 125
    ws,              \* the connection of the with block: "none", "open", "closed"
    data,            \* the local data of line 132
    exc,             \* the exception being handled (e of lines 135, 144)
    resp,            \* the token of the response login() is holding (line 36)
    log,             \* history: the events of the running operation
    idle_stop        \* history: stop_stream_prices() was called while no session was
                     \* active, after the last session ended

vars == <<token, stop_streaming, issued, runs, pc, op, products, terms,
          subscriptions, idx, ws, data, exc, resp, log, idle_stop>>

-----------------------------------------------------------------------------
(* Bounds of the model *)

MaxProducts == 2     \* longest products list
MaxTerms == 2        \* longest terms list of the small inputs
MaxMsgs == 2         \* messages the server delivers in one session
MaxRuns == 2         \* operations invoked on one client
BatchProducts == 2   \* longest products list of the batching inputs
TermSpread == 1      \* the long terms lists have limit-TermSpread .. limit+TermSpread entries

(* Program constants *)

MAX_PRODUCTS_PER_SUBSCRIPTION == 1000

\* Python's None, the value of self._token before a login; tokens are 1, 2, ...
None == 0
NoExc == [type |-> "none", code |-> 0, origin |-> "none"]

\* Range(n): the first n identifiers, as a list
Range(n) == [k \in 1..n |-> k]

ProductLists == {Range(n) : n \in 0..MaxProducts} \cup {<<1, 1>>}
TermLists == {Range(n) : n \in 0..MaxTerms}
BatchProductLists == {Range(n) : n \in 1..BatchProducts}
BatchTermLists ==
    {Range(n) : n \in (MAX_PRODUCTS_PER_SUBSCRIPTION - TermSpread)
                      ..(MAX_PRODUCTS_PER_SUBSCRIPTION + TermSpread)}

Min(a, b) == IF a < b THEN a ELSE b

-----------------------------------------------------------------------------
(* Pure parts of stream_prices *)

\* lines 118-123: the inner loop appends one entry per term, in terms order
InnerLoop(product, ts) ==
    [k \in 1..Len(ts) |-> [product |-> product, term |-> ts[k]]]

\* lines 116-123: the outer loop over products
RECURSIVE BuildSubscriptions(_, _)
BuildSubscriptions(ps, ts) ==
    IF ps = <<>> THEN <<>>
    ELSE InnerLoop(Head(ps), ts) \o BuildSubscriptions(Tail(ps), ts)

\* Slice with its end taken as inclusive: the entry at i + limit - 1 is left out
SliceEndInclusive(subs, i, limit) == SubSeq(subs, i + 1, Min(i + limit - 1, Len(subs)))

\* line 127: subscriptions[i: i + MAX_PRODUCTS_PER_SUBSCRIPTION], i counted from 0
Slice(subs, i, limit) == SubSeq(subs, i + 1, Min(i + limit, Len(subs)))

\* lines 126-128: the SUBSCRIBE message of the batch starting at i
SubscribeMessage(subs, i) ==
    [action |-> "SUBSCRIBE",
     subscriptions |-> Slice(subs, i, MAX_PRODUCTS_PER_SUBSCRIPTION)]

\* line 41: the header built from self._token (an absent token formats as "None")
BearerHeader(tok) == [scheme |-> "Bearer", token |-> tok]

-----------------------------------------------------------------------------
(* Bookkeeping helpers *)

Emit(t, e) == log' = [log EXCEPT ![t] = Append(@, e)]
Emit2(t, e1, e2) == log' = [log EXCEPT ![t] = Append(Append(@, e1), e2)]

\* connect() used without the with block: nothing closes the connection
ClosedLeavesOpen(t) == ws' = ws

\* The with block's __exit__ closes the connection before any except clause runs
Closed(t) == ws' = [ws EXCEPT ![t] = IF @ = "open" THEN "closed" ELSE @]

Goto(t, l) == pc' = [pc EXCEPT ![t] = l]

Streaming(t) == op[t] = "stream_prices" /\ pc[t] \notin {"idle", "done", "raised"}

\* No thread is inside stream_prices
NoSession == \A t \in DOMAIN pc : pc[t] = "idle" \/ op[t] # "stream_prices"


-----------------------------------------------------------------------------
(* Construction: __init__, lines 22-23 *)

InitWith(callers) ==
    /\ token = None
    /\ stop_streaming = TRUE
    /\ issued = 0
    /\ runs = 0
    /\ pc = [t \in callers |-> "idle"]
    /\ op = [t \in callers |-> "none"]
    /\ products = [t \in callers |-> <<>>]
    /\ terms = [t \in callers |-> <<>>]
    /\ subscriptions = [t \in callers |-> <<>>]
    /\ idx = [t \in callers |-> 0]
    /\ ws = [t \in callers |-> "none"]
    /\ data = [t \in callers |-> 0]
    /\ exc = [t \in callers |-> NoExc]
    /\ resp = [t \in callers |-> None]
    /\ log = [t \in callers |-> <<>>]
    /\ idle_stop = FALSE

Init == InitWith({"main"})

-----------------------------------------------------------------------------
(* The caller invokes a method of the client *)

\* A call of stream_prices(products, terms, on_message, on_error), line 102
InvokeStream(t, ps, ts) ==
    /\ pc[t] = "idle"
    /\ runs < MaxRuns
    /\ runs' = runs + 1
    /\ op' = [op EXCEPT ![t] = "stream_prices"]
    /\ products' = [products EXCEPT ![t] = ps]
    /\ terms' = [terms EXCEPT ![t] = ts]
    /\ subscriptions' = [subscriptions EXCEPT ![t] = <<>>]
    /\ idx' = [idx EXCEPT ![t] = 0]
    /\ ws' = [ws EXCEPT ![t] = "none"]
    /\ data' = [data EXCEPT ![t] = 0]
    /\ exc' = [exc EXCEPT ![t] = NoExc]
    /\ log' = [log EXCEPT ![t] = <<>>]
    /\ Goto(t, "reset")
    /\ UNCHANGED <<token, stop_streaming, issued, resp, idle_stop>>

\* A call of get_data_permissions(), line 43: a REST call that needs the header
InvokeRest(t) ==
    /\ pc[t] = "idle"
    /\ runs < MaxRuns
    /\ runs' = runs + 1
    /\ op' = [op EXCEPT ![t] = "get_data_permissions"]
    /\ products' = [products EXCEPT ![t] = <<>>]
    /\ terms' = [terms EXCEPT ![t] = <<>>]
    /\ subscriptions' = [subscriptions EXCEPT ![t] = <<>>]
    /\ idx' = [idx EXCEPT ![t] = 0]
    /\ ws' = [ws EXCEPT ![t] = "none"]
    /\ data' = [data EXCEPT ![t] = 0]
    /\ exc' = [exc EXCEPT ![t] = NoExc]
    /\ log' = [log EXCEPT ![t] = <<>>]
    /\ Goto(t, "gh_check")
    /\ UNCHANGED <<token, stop_streaming, issued, resp, idle_stop>>

-----------------------------------------------------------------------------
(* stop_stream_prices, lines 147-148 *)

\* The assignment of line 148.  The call is recorded in the log of a thread
\* when it changes the flag or is the first one since the thread's operation began.
SetStopFlag(by) ==
    /\ stop_streaming' = TRUE
    /\ log' = [t \in DOMAIN log |->
                 IF Streaming(t)
                    /\ (~stop_streaming \/ \A k \in 1..Len(log[t]) : log[t][k].ev # "stop")
                 THEN Append(log[t], [ev |-> "stop", at |-> pc[t], by |-> by])
                 ELSE log[t]]

\* stop_stream_prices() called from another execution context
StopStreamPrices ==
    /\ SetStopFlag("other")
    /\ idle_stop' = (idle_stop \/ NoSession)
    /\ UNCHANGED <<token, issued, runs, pc, op, products, terms, subscriptions,
                   idx, ws, data, exc, resp>>

-----------------------------------------------------------------------------
(* _get_headers and login, lines 25-41 *)

\* _get_headers without the test of line 39: it logs in on every call
GetHeadersAlwaysLogin(t) ==
    /\ pc[t] = "gh_check"
    /\ Emit(t, [ev |-> "get_headers", cached |-> token # None])
    /\ Goto(t, "login_post")
    /\ UNCHANGED <<token, stop_streaming, issued, runs, op, products, terms,
                   subscriptions, idx, ws, data, exc, resp, idle_stop>>

\* line 39: if self._token is None
GetHeadersCheck(t) ==
    /\ pc[t] = "gh_check"
    /\ Emit(t, [ev |-> "get_headers", cached |-> token # None])
    /\ Goto(t, IF token = None THEN "login_post" ELSE "gh_return")
    /\ UNCHANGED <<token, stop_streaming, issued, runs, op, products, terms,
                   subscriptions, idx, ws, data, exc, resp, idle_stop>>

\* lines 30-35, status 200: the token endpoint answers with a fresh token
LoginPostOk(t) ==
    /\ pc[t] = "login_post"
    /\ issued' = issued + 1
    /\ resp' = [resp EXCEPT ![t] = issued + 1]
    /\ Emit(t, [ev |-> "login", status |-> 200, token |-> issued + 1])
    /\ Goto(t, "login_set")
    /\ UNCHANGED <<token, stop_streaming, runs, op, products, terms,
                   subscriptions, idx, ws, data, exc, idle_stop>>

\* lines 34-35: any other status raises Exception("Failed to login: ...").
\* Inside stream_prices the raise happens in the try block, before connect is
\* called; inside a REST method it propagates to the caller.
LoginPostFail(t) ==
    /\ pc[t] = "login_post"
    /\ \E status \in {401, 500} :
          /\ Emit(t, [ev |-> "login", status |-> status, token |-> None])
          /\ exc' = [exc EXCEPT ![t] =
                        [type |-> "Exception", code |-> status, origin |-> "login"]]
    /\ Goto(t, IF op[t] = "stream_prices" THEN "except_exception" ELSE "raised")
    /\ UNCHANGED <<token, stop_streaming, issued, runs, op, products, terms,
                   subscriptions, idx, ws, data, resp, idle_stop>>

\* A login that merged the new token into the cached one instead of replacing it
LoginSetTokenMerges(t) ==
    /\ pc[t] = "login_set"
    /\ token' = token + resp[t]
    /\ resp' = [resp EXCEPT ![t] = None]
    /\ Goto(t, "gh_return")
    /\ UNCHANGED <<stop_streaming, issued, runs, op, products, terms,
                   subscriptions, idx, ws, data, exc, log, idle_stop>>

\* line 36: self._token = response.json()["data"]["token"]
LoginSetToken(t) ==
    /\ pc[t] = "login_set"
    /\ token' = resp[t]
    /\ resp' = [resp EXCEPT ![t] = None]
    /\ Goto(t, "gh_return")
    /\ UNCHANGED <<stop_streaming, issued, runs, op, products, terms,
                   subscriptions, idx, ws, data, exc, log, idle_stop>>

\* line 41: return {"Authorization": f"Bearer {self._token}"}
GetHeadersReturn(t) ==
    /\ pc[t] = "gh_return"
    /\ Emit(t, [ev |-> "header", header |-> BearerHeader(token)])
    /\ Goto(t, IF op[t] = "stream_prices" THEN "connect" ELSE "rest_request")
    /\ UNCHANGED <<token, stop_streaming, issued, runs, op, products, terms,
                   subscriptions, idx, ws, data, exc, resp, idle_stop>>

\* lines 44-51: the GET of get_data_permissions; a status other than 200 raises
RestRequest(t) ==
    /\ pc[t] = "rest_request"
    /\ \E status \in {200, 500} :
          /\ Emit(t, [ev |-> "request", status |-> status])
          /\ Goto(t, IF status = 200 THEN "done" ELSE "raised")
          /\ exc' = [exc EXCEPT ![t] =
                        IF status = 200 THEN NoExc
                        ELSE [type |-> "Exception", code |-> status, origin |-> "request"]]
    /\ UNCHANGED <<token, stop_streaming, issued, runs, op, products, terms,
                   subscriptions, idx, ws, data, resp, idle_stop>>

-----------------------------------------------------------------------------
(* stream_prices, lines 102-145 *)

\* stream_prices without line 110: the flag keeps the value it had at the call
ResetStopFlagMissing(t) ==
    /\ pc[t] = "reset"
    /\ Goto(t, "gh_check")
    /\ UNCHANGED <<token, stop_streaming, issued, runs, op, products, terms, subscriptions,
                   idx, ws, data, exc, resp, log, idle_stop>>

\* line 110: self._stop_streaming = False
ResetStopFlag(t) ==
    /\ pc[t] = "reset"
    /\ stop_streaming' = FALSE
    /\ Goto(t, "gh_check")
    /\ UNCHANGED <<token, issued, runs, op, products, terms, subscriptions,
                   idx, ws, data, exc, resp, log, idle_stop>>

\* lines 113-115: connect(...) completes the handshake (status 101)
ConnectOk(t) ==
    /\ pc[t] = "connect"
    /\ ws' = [ws EXCEPT ![t] = "open"]
    /\ Emit(t, [ev |-> "connect", status |-> 101])
    /\ Goto(t, "build")
    /\ UNCHANGED <<token, stop_streaming, issued, runs, op, products, terms,
                   subscriptions, idx, data, exc, resp, idle_stop>>

\* lines 113-115: the server rejects the handshake; connect raises InvalidStatus
ConnectRejected(t) ==
    /\ pc[t] = "connect"
    /\ \E status \in {401, 403, 500} :
          /\ Emit(t, [ev |-> "connect", status |-> status])
          /\ exc' = [exc EXCEPT ![t] =
                        [type |-> "InvalidStatus", code |-> status, origin |-> "connect"]]
    /\ Goto(t, "except_invalid_status")
    /\ UNCHANGED <<token, stop_streaming, issued, runs, op, products, terms,
                   subscriptions, idx, ws, data, resp, idle_stop>>

\* lines 113-115: connect fails without a response (refused, timed out)
ConnectFailed(t) ==
    /\ pc[t] = "connect"
    /\ Emit(t, [ev |-> "connect", status |-> 0])
    /\ exc' = [exc EXCEPT ![t] = [type |-> "OSError", code |-> 0, origin |-> "connect"]]
    /\ Goto(t, "except_exception")
    /\ UNCHANGED <<token, stop_streaming, issued, runs, op, products, terms,
                   subscriptions, idx, ws, data, resp, idle_stop>>

\* lines 116-124: build the list of subscriptions
Build(t) ==
    /\ pc[t] = "build"
    /\ subscriptions' = [subscriptions EXCEPT ![t] = BuildSubscriptions(products[t], terms[t])]
    /\ idx' = [idx EXCEPT ![t] = 0]
    /\ Goto(t, "send")
    /\ UNCHANGED <<token, stop_streaming, issued, runs, op, products, terms,
                   ws, data, exc, resp, log, idle_stop>>

\* The range of line 125 stopping one limit early: range(0, n - limit, limit)
HasNextBatchStopsEarly(t) ==
    idx[t] + MAX_PRODUCTS_PER_SUBSCRIPTION < Len(subscriptions[t])

\* The range of line 125 with its end included: range(0, n + 1, limit)
HasNextBatchEndIncluded(t) == idx[t] <= Len(subscriptions[t])

\* line 125: for i in range(0, n, MAX_PRODUCTS_PER_SUBSCRIPTION) has a next i
HasNextBatch(t) == idx[t] < Len(subscriptions[t])

\* lines 125-129: one iteration, ws.send(message) completes
SendBatch(t) ==
    /\ pc[t] = "send"
    /\ HasNextBatch(t)
    /\ Emit(t, [ev |-> "send", message |-> SubscribeMessage(subscriptions[t], idx[t])])
    /\ idx' = [idx EXCEPT ![t] = @ + MAX_PRODUCTS_PER_SUBSCRIPTION]
    /\ UNCHANGED <<token, stop_streaming, issued, runs, pc, op, products, terms,
                   subscriptions, ws, data, exc, resp, idle_stop>>

\* The failure of a send caught inside the for loop, which goes on with the next batch
SendFailedContinues(t) ==
    /\ pc[t] = "send"
    /\ HasNextBatch(t)
    /\ Emit(t, [ev |-> "send_failed", code |-> 1006])
    /\ idx' = [idx EXCEPT ![t] = @ + MAX_PRODUCTS_PER_SUBSCRIPTION]
    /\ UNCHANGED <<token, stop_streaming, issued, runs, pc, op, products, terms,
                   subscriptions, ws, data, exc, resp, idle_stop>>

\* line 129: ws.send raises because the connection was closed meanwhile
SendFailed(t) ==
    /\ pc[t] = "send"
    /\ HasNextBatch(t)
    /\ \E e \in {[type |-> "ConnectionClosedOK", code |-> 1000, origin |-> "send"],
                 [type |-> "ConnectionClosedError", code |-> 1006, origin |-> "send"]} :
          /\ exc' = [exc EXCEPT ![t] = e]
          /\ Emit2(t, [ev |-> "send_failed", code |-> e.code], [ev |-> "close"])
    /\ Closed(t)
    /\ Goto(t, "except_exception")
    /\ UNCHANGED <<token, stop_streaming, issued, runs, op, products, terms,
                   subscriptions, idx, data, resp, idle_stop>>

\* line 125: the range is exhausted
SendDone(t) ==
    /\ pc[t] = "send"
    /\ ~HasNextBatch(t)
    /\ Goto(t, "loop")
    /\ UNCHANGED <<token, stop_streaming, issued, runs, op, products, terms,
                   subscriptions, idx, ws, data, exc, resp, log, idle_stop>>

\* The loop of line 131 as while True: the flag is never read
LoopConditionIgnoresFlag == TRUE

\* line 131: while not self._stop_streaming
LoopCondition == ~stop_streaming

\* line 131, condition true: go on to receive
LoopEnter(t) ==
    /\ pc[t] = "loop"
    /\ LoopCondition
    /\ Goto(t, "recv")
    /\ UNCHANGED <<token, stop_streaming, issued, runs, op, products, terms,
                   subscriptions, idx, ws, data, exc, resp, log, idle_stop>>

\* line 131, condition false: the with block closes the connection and
\* stream_prices returns
LoopExit(t) ==
    /\ pc[t] = "loop"
    /\ ~LoopCondition
    /\ Closed(t)
    /\ Emit(t, [ev |-> "close"])
    /\ Goto(t, "done")
    /\ UNCHANGED <<token, stop_streaming, issued, runs, op, products, terms,
                   subscriptions, idx, data, exc, resp, idle_stop>>

\* Messages received so far in the session of t
NumReceived(t) == Cardinality({k \in 1..Len(log[t]) : log[t][k].ev = "recv"})

\* line 132: ws.recv(decode=True) returns the next message
RecvMessage(t) ==
    /\ pc[t] = "recv"
    /\ NumReceived(t) < MaxMsgs
    /\ data' = [data EXCEPT ![t] = NumReceived(t) + 1]
    /\ Emit(t, [ev |-> "recv", data |-> NumReceived(t) + 1])
    /\ Goto(t, "dispatch")
    /\ UNCHANGED <<token, stop_streaming, issued, runs, op, products, terms,
                   subscriptions, idx, ws, exc, resp, idle_stop>>

\* line 132 in a long-running session: recv returns one more message, past the
\* MaxMsgs messages whose receipt the history records
RecvMore(t) ==
    /\ pc[t] = "recv"
    /\ NumReceived(t) = MaxMsgs
    /\ Goto(t, "dispatch_more")
    /\ UNCHANGED <<token, stop_streaming, issued, runs, op, products, terms,
                   subscriptions, idx, ws, data, exc, resp, log, idle_stop>>

\* line 133 in a long-running session: on_message returns for such a message
DispatchMore(t) ==
    /\ pc[t] = "dispatch_more"
    /\ Goto(t, "loop")
    /\ UNCHANGED <<token, stop_streaming, issued, runs, op, products, terms,
                   subscriptions, idx, ws, data, exc, resp, log, idle_stop>>

\* The close caught inside the loop, which then goes on to its next iteration
RecvClosedKeepsLooping(t) ==
    /\ pc[t] = "recv"
    /\ \E code \in {1000, 1006, 1011} : Emit(t, [ev |-> "recv_closed", code |-> code])
    /\ Goto(t, "loop")
    /\ UNCHANGED <<token, stop_streaming, issued, runs, op, products, terms,
                   subscriptions, idx, ws, data, exc, resp, idle_stop>>

\* line 132: the remote end closed the connection; recv raises ConnectionClosedOK
\* for a normal-closure code and ConnectionClosedError otherwise
RecvClosed(t) ==
    /\ pc[t] = "recv"
    /\ \E e \in {[type |-> "ConnectionClosedOK", code |-> 1000, origin |-> "recv"],
                 [type |-> "ConnectionClosedError", code |-> 1006, origin |-> "recv"],
                 [type |-> "ConnectionClosedError", code |-> 1011, origin |-> "recv"]} :
          /\ exc' = [exc EXCEPT ![t] = e]
          /\ Emit2(t, [ev |-> "recv_closed", code |-> e.code], [ev |-> "close"])
    /\ Closed(t)
    /\ Goto(t, "except_exception")
    /\ UNCHANGED <<token, stop_streaming, issued, runs, op, products, terms,
                   subscriptions, idx, data, resp, idle_stop>>

\* line 132: recv fails for another reason (I/O, decoding)
RecvFailed(t) ==
    /\ pc[t] = "recv"
    /\ exc' = [exc EXCEPT ![t] = [type |-> "Exception", code |-> 0, origin |-> "recv"]]
    /\ Emit2(t, [ev |-> "recv_failed"], [ev |-> "close"])
    /\ Closed(t)
    /\ Goto(t, "except_exception")
    /\ UNCHANGED <<token, stop_streaming, issued, runs, op, products, terms,
                   subscriptions, idx, data, resp, idle_stop>>

\* line 133: on_message(data) returns
OnMessageReturns(t) ==
    /\ pc[t] = "dispatch"
    /\ Emit(t, [ev |-> "on_message", data |-> data[t], raised |-> FALSE])
    /\ Goto(t, "loop")
    /\ UNCHANGED <<token, stop_streaming, issued, runs, op, products, terms,
                   subscriptions, idx, ws, data, exc, resp, idle_stop>>

\* line 133: on_message(data) calls stop_stream_prices() and returns
OnMessageStops(t) ==
    /\ pc[t] = "dispatch"
    /\ stop_streaming' = TRUE
    /\ Emit2(t, [ev |-> "on_message", data |-> data[t], raised |-> FALSE],
                [ev |-> "stop", at |-> "dispatch", by |-> "on_message"])
    /\ Goto(t, "loop")
    /\ UNCHANGED <<token, issued, runs, op, products, terms,
                   subscriptions, idx, ws, data, exc, resp, idle_stop>>

\* The handler's exception caught around line 133 and dropped; the loop goes on
OnMessageRaisesSwallowed(t) ==
    /\ pc[t] = "dispatch"
    /\ Emit(t, [ev |-> "on_message", data |-> data[t], raised |-> TRUE])
    /\ Goto(t, "loop")
    /\ UNCHANGED <<token, stop_streaming, issued, runs, op, products, terms,
                   subscriptions, idx, ws, data, exc, resp, idle_stop>>

\* line 133: on_message(data) raises an Exception
OnMessageRaises(t) ==
    /\ pc[t] = "dispatch"
    /\ exc' = [exc EXCEPT ![t] = [type |-> "HandlerError", code |-> 0, origin |-> "on_message"]]
    /\ Emit2(t, [ev |-> "on_message", data |-> data[t], raised |-> TRUE], [ev |-> "close"])
    /\ Closed(t)
    /\ Goto(t, "except_exception")
    /\ UNCHANGED <<token, stop_streaming, issued, runs, op, products, terms,
                   subscriptions, idx, data, resp, idle_stop>>

\* lines 136-142: what the except InvalidStatus clause logs for a status
LoggedFor(status) ==
    IF status = 401 THEN "User is unauthorized"
    ELSE IF status = 403 THEN "User might might not have permissions"
    ELSE "nothing"

\* on_error(e) of line 143 indented into an else branch: 401 and 403 are only logged
ExceptInvalidStatusLogsOnly(t) ==
    /\ pc[t] = "except_invalid_status"
    /\ IF exc[t].code \in {401, 403}
       THEN Emit(t, [ev |-> "logging", text |-> LoggedFor(exc[t].code)])
       ELSE Emit(t, [ev |-> "on_error", error |-> exc[t]])
    /\ \E l \in {"done", "raised"} : Goto(t, l)
    /\ UNCHANGED <<token, stop_streaming, issued, runs, op, products, terms,
                   subscriptions, idx, ws, data, exc, resp, idle_stop>>

\* lines 135-143: except InvalidStatus as e: log by status, then on_error(e);
\* an exception raised by on_error leaves stream_prices
ExceptInvalidStatus(t) ==
    /\ pc[t] = "except_invalid_status"
    /\ Emit2(t, [ev |-> "logging", text |-> LoggedFor(exc[t].code)],
                [ev |-> "on_error", error |-> exc[t]])
    /\ \E l \in {"done", "raised"} : Goto(t, l)
    /\ UNCHANGED <<token, stop_streaming, issued, runs, op, products, terms,
                   subscriptions, idx, ws, data, exc, resp, idle_stop>>

\* The except clause reporting the error and then connecting again
ExceptExceptionReconnects(t) ==
    /\ pc[t] = "except_exception"
    /\ Emit(t, [ev |-> "on_error", error |-> exc[t]])
    /\ Goto(t, "gh_check")
    /\ UNCHANGED <<token, stop_streaming, issued, runs, op, products, terms,
                   subscriptions, idx, ws, data, exc, resp, idle_stop>>

\* lines 144-145: except Exception as e: on_error(e)
ExceptException(t) ==
    /\ pc[t] = "except_exception"
    /\ Emit(t, [ev |-> "on_error", error |-> exc[t]])
    /\ \E l \in {"done", "raised"} : Goto(t, l)
    /\ UNCHANGED <<token, stop_streaming, issued, runs, op, products, terms,
                   subscriptions, idx, ws, data, exc, resp, idle_stop>>

\* The method has returned or raised; the caller goes on
Return(t) ==
    /\ pc[t] \in {"done", "raised"}
    /\ Goto(t, "idle")
    /\ idle_stop' = (idle_stop /\ op[t] # "stream_prices")
    /\ UNCHANGED <<token, stop_streaming, issued, runs, op, products, terms,
                   subscriptions, idx, ws, data, exc, resp, log>>

-----------------------------------------------------------------------------
(* Specifications *)

\* The threads of the model
Callers == DOMAIN pc

\* One step of a thread inside a method of the client
Step ==
    \/ \E t \in Callers : GetHeadersCheck(t)
    \/ \E t \in Callers : LoginPostOk(t)
    \/ \E t \in Callers : LoginPostFail(t)
    \/ \E t \in Callers : LoginSetToken(t)
    \/ \E t \in Callers : GetHeadersReturn(t)
    \/ \E t \in Callers : RestRequest(t)
    \/ \E t \in Callers : ResetStopFlag(t)
    \/ \E t \in Callers : ConnectOk(t)
    \/ \E t \in Callers : ConnectRejected(t)
    \/ \E t \in Callers : ConnectFailed(t)
    \/ \E t \in Callers : Build(t)
    \/ \E t \in Callers : SendBatch(t)
    \/ \E t \in Callers : SendFailed(t)
    \/ \E t \in Callers : SendDone(t)
    \/ \E t \in Callers : LoopEnter(t)
    \/ \E t \in Callers : LoopExit(t)
    \/ \E t \in Callers : RecvMessage(t)
    \/ \E t \in Callers : RecvClosed(t)
    \/ \E t \in Callers : RecvFailed(t)
    \/ \E t \in Callers : OnMessageReturns(t)
    \/ \E t \in Callers : OnMessageStops(t)
    \/ \E t \in Callers : OnMessageRaises(t)
    \/ \E t \in Callers : ExceptInvalidStatus(t)
    \/ \E t \in Callers : ExceptException(t)
    \/ \E t \in Callers : Return(t)

\* Small inputs: every failure mode and interleaving of one client's sessions
Next ==
    \/ Step
    \/ \E t \in Callers : \E ps \in ProductLists, ts \in TermLists : InvokeStream(t, ps, ts)
    \/ \E t \in Callers : InvokeRest(t)
    \/ StopStreamPrices

Spec == Init /\ [][Next]_vars

\* Inputs whose cross-product is around and above the batch limit, one session,
\* stop requests made while it runs
NextBatch ==
    \/ Step
    \/ \E t \in Callers : \E ps \in BatchProductLists, ts \in BatchTermLists :
          runs = 0 /\ InvokeStream(t, ps, ts)
    \/ \E t \in Callers : InvokeRest(t)
    \/ ~NoSession /\ StopStreamPrices

SpecBatch == Init /\ [][NextBatch]_vars

\* One step of a thread, sessions that stream without end included
StepLive ==
    \/ Step
    \/ \E t \in Callers : RecvMore(t)
    \/ \E t \in Callers : DispatchMore(t)

NextLive ==
    \/ StepLive
    \/ \E t \in Callers : \E ps \in ProductLists, ts \in TermLists : InvokeStream(t, ps, ts)
    \/ \E t \in Callers : InvokeRest(t)
    \/ StopStreamPrices

\* The thread inside a method keeps running, and a pending receive ends: it
\* delivers a message or raises because the connection was closed or failed
SpecLive == Init /\ [][NextLive]_vars /\ WF_vars(StepLive)

\* One step of a thread inside stream_prices while the servers accept the
\* connection and the transport does not fail
StepConc ==
    \/ \E t \in Callers : GetHeadersCheck(t)
    \/ \E t \in Callers : LoginPostOk(t)
    \/ \E t \in Callers : LoginPostFail(t)
    \/ \E t \in Callers : LoginSetToken(t)
    \/ \E t \in Callers : GetHeadersReturn(t)
    \/ \E t \in Callers : ResetStopFlag(t)
    \/ \E t \in Callers : ConnectOk(t)
    \/ \E t \in Callers : Build(t)
    \/ \E t \in Callers : SendBatch(t)
    \/ \E t \in Callers : SendDone(t)
    \/ \E t \in Callers : LoopEnter(t)
    \/ \E t \in Callers : LoopExit(t)
    \/ \E t \in Callers : RecvMessage(t)
    \/ \E t \in Callers : OnMessageReturns(t)
    \/ \E t \in Callers : ExceptException(t)
    \/ \E t \in Callers : Return(t)

\* Two threads share one client: each may call stream_prices (one product, one
\* term), and stop_stream_prices may be called while a session runs
NextConc ==
    \/ StepConc
    \/ \E t \in Callers : InvokeStream(t, <<1>>, <<1>>)
    \/ ~NoSession /\ StopStreamPrices

SpecConc == InitWith({"main", "second"}) /\ [][NextConc]_vars

\* One step of a thread that needs the Authorization header: a REST call, or a
\* session that subscribes and then sees the server close the connection
StepAuth ==
    \/ \E t \in Callers : GetHeadersCheck(t)
    \/ \E t \in Callers : LoginPostOk(t)
    \/ \E t \in Callers : LoginPostFail(t)
    \/ \E t \in Callers : LoginSetToken(t)
    \/ \E t \in Callers : GetHeadersReturn(t)
    \/ \E t \in Callers : RestRequest(t)
    \/ \E t \in Callers : ResetStopFlag(t)
    \/ \E t \in Callers : ConnectOk(t)
    \/ \E t \in Callers : Build(t)
    \/ \E t \in Callers : SendBatch(t)
    \/ \E t \in Callers : SendDone(t)
    \/ \E t \in Callers : LoopEnter(t)
    \/ \E t \in Callers : RecvClosed(t)
    \/ \E t \in Callers : ExceptException(t)
    \/ \E t \in Callers : Return(t)

\* Two threads share one client: a streaming session and REST calls, in any
\* interleaving of their _get_headers and login calls
NextAuth ==
    \/ StepAuth
    \/ \E t \in Callers : InvokeStream(t, <<1>>, <<1>>)
    \/ \E t \in Callers : InvokeRest(t)

SpecAuth == InitWith({"main", "second"}) /\ [][NextAuth]_vars

-----------------------------------------------------------------------------
(* Reading the history *)

\* The positions of the events of one kind in the log of t
Positions(t, kind) == {k \in 1..Len(log[t]) : log[t][k].ev = kind}

\* The events of one kind in the log of t, in order
Events(t, kind) == SelectSeq(log[t], LAMBDA e : e.ev = kind)

\* The SUBSCRIBE messages the session of t has sent, in send order
Sent(t) == [k \in 1..Len(Events(t, "send")) |-> Events(t, "send")[k].message]

\* The connection was opened and every send of the session has completed
SendPhaseOver(t) ==
    /\ op[t] = "stream_prices"
    /\ Positions(t, "connect") # {}
    /\ \A k \in Positions(t, "connect") : log[t][k].status = 101
    /\ pc[t] \notin {"build", "send"}
    /\ Positions(t, "send_failed") = {}

\* Entry k of the cross-product in product-major order
CrossProductEntry(ps, ts, k) ==
    [product |-> ps[((k - 1) \div Len(ts)) + 1],
     term |-> ts[((k - 1) % Len(ts)) + 1]]

\* The cross-product in product-major order
CrossProduct(ps, ts) ==
    [k \in 1..(Len(ps) * Len(ts)) |-> CrossProductEntry(ps, ts, k)]

CeilDiv(n, m) == (n + m - 1) \div m

RECURSIVE ConcatSubscriptions(_)
ConcatSubscriptions(msgs) ==
    IF msgs = <<>> THEN <<>>
    ELSE Head(msgs).subscriptions \o ConcatSubscriptions(Tail(msgs))

-----------------------------------------------------------------------------
(* C1: for non-empty products and terms with cross-product size N, a session
   whose sends all completed has sent exactly ceil(N / limit) SUBSCRIBE
   messages, each with at most limit entries and all but the last with exactly
   limit; and whenever the session is at its loop condition or has ended, the
   subscriptions lists of the messages it sent, concatenated in send order, are
   the product-major cross-product (nothing omitted, nothing sent twice). *)
C1_BatchesCoverCrossProduct ==
    \A t \in Callers :
        (SendPhaseOver(t) /\ products[t] # <<>> /\ terms[t] # <<>>) =>
            LET n == Len(products[t]) * Len(terms[t])
                msgs == Sent(t)
            IN  /\ Len(msgs) = CeilDiv(n, MAX_PRODUCTS_PER_SUBSCRIPTION)
                /\ \A k \in 1..Len(msgs) :
                      /\ msgs[k].action = "SUBSCRIBE"
                      /\ Len(msgs[k].subscriptions) <= MAX_PRODUCTS_PER_SUBSCRIPTION
                      /\ k < Len(msgs) =>
                            Len(msgs[k].subscriptions) = MAX_PRODUCTS_PER_SUBSCRIPTION
                /\ pc[t] \in {"loop", "done", "raised"} =>
                      ConcatSubscriptions(msgs) = CrossProduct(products[t], terms[t])

\* A session that sent three batches, the last one shorter than the limit
C1_Witness ==
    \E t \in Callers :
        /\ SendPhaseOver(t)
        /\ Len(Sent(t)) = 3
        /\ Len(Sent(t)[3].subscriptions) < MAX_PRODUCTS_PER_SUBSCRIPTION
        /\ Len(Sent(t)[3].subscriptions) > 0

-----------------------------------------------------------------------------
\* A stop_stream_prices() call recorded at position k was made while the
\* session of t was in its receive loop
StopInLoop(t, k) ==
    log[t][k].ev = "stop" /\ log[t][k].at \in {"loop", "recv", "dispatch"}

(* C2: when stop_stream_prices() is called while a session is in its receive
   loop, from on_message or from another thread, at most one on_message call
   of that session comes after the stop call. *)
C2_AtMostOneMessageAfterStop ==
    \A t \in Callers : \A k \in 1..Len(log[t]) :
        StopInLoop(t, k) =>
            Cardinality({j \in Positions(t, "on_message") : j > k}) <= 1

\* The stop came while the receive was pending, the message it was waiting
\* for was still handed to on_message, and the session then ended
C2_Witness ==
    \E t \in Callers : \E k \in 1..Len(log[t]) :
        /\ StopInLoop(t, k) /\ log[t][k].at = "recv" /\ log[t][k].by = "other"
        /\ Cardinality({j \in Positions(t, "on_message") : j > k}) = 1
        /\ pc[t] = "done"

(* C3: once stop_stream_prices() has been called during the receive loop of a
   session, on_error is not invoked for that session any more, also when the
   pending receive ends with a close or a transport failure. *)
C3_NoErrorAfterStop ==
    \A t \in Callers : \A k \in 1..Len(log[t]) :
        StopInLoop(t, k) => \A j \in Positions(t, "on_error") : j < k

-----------------------------------------------------------------------------
\* The handshake of the session of t was rejected with this status
Rejected(t, status) ==
    \E k \in Positions(t, "connect") : log[t][k].status = status

(* C4: when the handshake is rejected with 401 or 403 the session sends no
   SUBSCRIBE message, receives nothing and calls on_message never; it calls
   on_error at most once and, by the time it ends, exactly once, with the
   InvalidStatus error carrying that status, after logging the line of that
   status; and no other failure is passed to on_error as an InvalidStatus
   with status 401 or 403. *)
C4_HandshakeRejection ==
    \A t \in Callers :
        /\ \A status \in {401, 403} :
              Rejected(t, status) =>
                 /\ Positions(t, "send") = {}
                 /\ Positions(t, "recv") = {}
                 /\ Positions(t, "on_message") = {}
                 /\ Cardinality(Positions(t, "on_error")) <= 1
                 /\ pc[t] \in {"done", "raised", "idle"} =>
                       /\ Cardinality(Positions(t, "on_error")) = 1
                       /\ \A k \in Positions(t, "on_error") :
                             log[t][k].error = [type |-> "InvalidStatus", code |-> status,
                                                origin |-> "connect"]
                       /\ \A k \in Positions(t, "logging") :
                             log[t][k].text = (IF status = 401 THEN "User is unauthorized"
                                               ELSE "User might might not have permissions")
                       /\ Positions(t, "logging") # {}
        /\ \A k \in Positions(t, "on_error") :
              (log[t][k].error.type = "InvalidStatus" /\ log[t][k].error.code \in {401, 403})
                 => Rejected(t, log[t][k].error.code)

\* A session rejected with 403 has ended after its one on_error call
C4_Witness ==
    \E t \in Callers :
        /\ Rejected(t, 403)
        /\ pc[t] = "done"
        /\ Cardinality(Positions(t, "on_error")) = 1

-----------------------------------------------------------------------------
\* The payloads of the events of one kind, in order
Payloads(t, kind) == [k \in 1..Len(Events(t, kind)) |-> Events(t, kind)[k].data]

(* C5: if the remote end closes the connection after the transport delivered
   N messages, on_message has been called exactly N times, with those messages
   in receipt order and each one before the next receive; one terminal
   notification follows the close (none earlier, exactly one by the time the
   session has ended) and neither a receive nor an on_message call follows it. *)
C5_CloseAfterNMessages ==
    \A t \in Callers : \A c \in Positions(t, "recv_closed") :
        /\ Payloads(t, "on_message") = Payloads(t, "recv")
        /\ \A j \in Positions(t, "recv") :
              \E m \in Positions(t, "on_message") :
                 /\ j < m /\ log[t][m].data = log[t][j].data
                 /\ \A r \in Positions(t, "recv") : ~(j < r /\ r < m)
        /\ \A j \in Positions(t, "on_message") \cup Positions(t, "recv") : j < c
        /\ \A j \in Positions(t, "on_error") : j > c
        /\ Cardinality(Positions(t, "on_error")) <= 1
        /\ pc[t] \in {"done", "raised", "idle"} => Cardinality(Positions(t, "on_error")) = 1

\* The remote end closed after two messages and the session has ended
C5_Witness ==
    \E t \in Callers :
        /\ Positions(t, "recv_closed") # {}
        /\ Payloads(t, "on_message") = <<1, 2>>
        /\ Cardinality(Positions(t, "on_error")) = 1
        /\ pc[t] = "done"

(* C6: a remote close with a normal-closure code is never surfaced through
   on_error. *)
C6_NormalCloseNotAnError ==
    \A t \in Callers : \A k \in Positions(t, "on_error") :
        ~(log[t][k].error.type = "ConnectionClosedOK" /\ log[t][k].error.origin = "recv")

-----------------------------------------------------------------------------
\* The events of a session that belong to its receive loop
LoopEvents == {"recv", "recv_closed", "recv_failed", "on_message"}

(* C7: the k-th SUBSCRIBE message a session has sent is the k-th batch: it
   runs from entry (k-1)*limit+1 of the cross-product to entry k*limit, or to
   the last entry, so the batches go out in batch order; every batch has been
   sent when the session is in its receive loop; and in the session's history
   no send comes after a receive attempt or an on_message call. *)
C7_SendsPrecedeReceiveLoop ==
    \A t \in Callers :
        LET n == Len(products[t]) * Len(terms[t])
            first(k) == (k - 1) * MAX_PRODUCTS_PER_SUBSCRIPTION + 1
            last(k) == Min(k * MAX_PRODUCTS_PER_SUBSCRIPTION, n)
        IN  /\ \A k \in 1..Len(Sent(t)) :
                  LET batch == Sent(t)[k].subscriptions
                  IN  /\ first(k) <= n
                      /\ Len(batch) = last(k) - first(k) + 1
                      /\ batch[1] = CrossProductEntry(products[t], terms[t], first(k))
                      /\ batch[Len(batch)] = CrossProductEntry(products[t], terms[t], last(k))
            /\ (pc[t] \in {"loop", "recv", "dispatch"}
                  \/ \E e \in LoopEvents : Positions(t, e) # {})
                  => Len(Sent(t)) = CeilDiv(n, MAX_PRODUCTS_PER_SUBSCRIPTION)
            /\ \A j \in Positions(t, "send") : \A e \in LoopEvents :
                  \A r \in Positions(t, e) : j < r

\* Two batches were sent, then a message was received and handed to on_message
C7_Witness ==
    \E t \in Callers :
        /\ Len(Sent(t)) = 2
        /\ Positions(t, "on_message") # {}

-----------------------------------------------------------------------------
\* The arguments of the session of t give an empty cross-product
EmptyInput(t) == op[t] = "stream_prices" /\ (products[t] = <<>> \/ terms[t] = <<>>)

(* C8: with products or terms empty the session asks for the header and opens
   the connection as any other session does, sends no SUBSCRIBE message, has
   nothing left to send when it reaches the send loop (so its next step is the
   loop condition), and calls on_error only for a failed login, a failed
   connect or a failure in the receive loop, never for the empty input. *)
C8_EmptyInputStillStreams ==
    \A t \in Callers :
        EmptyInput(t) =>
            /\ Positions(t, "send") = {}
            /\ Positions(t, "send_failed") = {}
            /\ pc[t] = "send" => ~HasNextBatch(t)
            /\ pc[t] \in {"build", "send", "loop", "recv", "dispatch"} =>
                  /\ Positions(t, "header") # {}
                  /\ \E k \in Positions(t, "connect") : log[t][k].status = 101
                  /\ Positions(t, "on_error") = {}
            /\ \A k \in Positions(t, "on_error") :
                  log[t][k].error.origin \in {"login", "connect", "recv", "on_message"}

\* A session with products empty and terms not received a message
C8_Witness ==
    \E t \in Callers :
        /\ op[t] = "stream_prices" /\ products[t] = <<>> /\ terms[t] # <<>>
        /\ Positions(t, "recv") # {}
        /\ Positions(t, "send") = {}

-----------------------------------------------------------------------------
(* C9: when on_message raises, the session leaves the receive loop through
   the except clause a transport error goes through: no receive and no
   on_message call follows, and the failure is passed to on_error, which has
   happened by the time the session has ended. *)
C9_HandlerFailureNotSwallowed ==
    \A t \in Callers : \A k \in Positions(t, "on_message") :
        log[t][k].raised =>
            /\ \A j \in Positions(t, "recv") \cup Positions(t, "on_message") : j <= k
            /\ pc[t] \in {"except_exception", "done", "raised", "idle"}
            /\ exc[t].origin = "on_message"
            /\ \A j \in Positions(t, "on_error") :
                  j > k /\ log[t][j].error = [type |-> "HandlerError", code |-> 0,
                                              origin |-> "on_message"]
            /\ pc[t] # "except_exception" => Cardinality(Positions(t, "on_error")) = 1

\* on_message handled one payload, raised on the second, and on_error got the failure
C9_Witness ==
    \E t \in Callers :
        /\ Cardinality(Positions(t, "on_message")) = 2
        /\ \E k \in Positions(t, "on_message") : log[t][k].raised
        /\ \E j \in Positions(t, "on_error") : log[t][j].error.origin = "on_message"
        /\ pc[t] = "done"

-----------------------------------------------------------------------------
\* The events of _get_headers and login in the log of t
AuthLog(t) == SelectSeq(log[t], LAMBDA e : e.ev \in {"get_headers", "login", "header"})

(* C10: the token is absent or a token a successful login returned, and it
   changes only by line 36 of login() storing the token of a 200 response
   while none is cached; a _get_headers call is followed by a login exactly
   when it found no token cached; after a failed login no token is cached;
   and every header returned carries the cached token, never an absent one. *)
C10_TokenState ==
    /\ token \in 0..issued
    /\ \A t \in Callers :
          LET auth == AuthLog(t)
          IN  /\ \A k \in 1..Len(auth) :
                    /\ (auth[k].ev = "get_headers" /\ k < Len(auth)) =>
                          (auth[k + 1].ev = "login") = ~auth[k].cached
                    /\ (auth[k].ev = "get_headers" /\ k = Len(auth)) => (auth[k].cached = (token # None))
                    /\ auth[k].ev = "login" =>
                          /\ k > 1 /\ auth[k - 1].ev = "get_headers" /\ ~auth[k - 1].cached
                          /\ auth[k].status # 200 => token = None
                    /\ auth[k].ev = "header" =>
                          /\ auth[k].header.token # None
                          /\ auth[k].header = BearerHeader(token)
              /\ pc[t] = "login_post" => token = None
              /\ pc[t] = "gh_return" => token # None

\* C10, the transitions: the token changes only when login() stores the token
\* of the latest 200 response while none is cached
C10_TokenTransitions ==
    token' # token =>
        \E t \in Callers : pc[t] = "login_set" /\ token = None /\ token' = resp[t]
                           /\ resp[t] = issued /\ resp[t] # None

(* C10: the token cache is the two-state machine {no token, token valid}:
   C10_TokenState holds in every state and every step that changes the token
   is the store of line 36 after a successful login. *)
C10_TokenCache == []C10_TokenState /\ [][C10_TokenTransitions]_vars

\* After a failed login in one operation, the next operation found no token,
\* logged in again and returned a header with the new token
C10_Witness ==
    \E t \in Callers :
        /\ runs = 2
        /\ token = 1
        /\ Len(log[t]) >= 3
        /\ log[t][1] = [ev |-> "get_headers", cached |-> FALSE]
        /\ log[t][2] = [ev |-> "login", status |-> 200, token |-> 1]
        /\ log[t][3] = [ev |-> "header", header |-> BearerHeader(1)]

-----------------------------------------------------------------------------
\* Everything of the client and its threads except the stop flag and its history
AllButStopFlag == <<token, issued, runs, pc, op, products, terms, subscriptions,
                    idx, ws, data, exc, resp, log>>

\* C12, the state part: past line 110 the flag of a session is false until a
\* stop_stream_prices() call made during that session, whatever was called before it
C12_FlagClearedAtStart ==
    \A t \in Callers :
        (Streaming(t) /\ pc[t] # "reset" /\ Positions(t, "stop") = {}) => ~stop_streaming

\* C12, the step part: a step taken while no session is active that starts no
\* operation (a stop_stream_prices() call) changes nothing but the flag
C12_IdleStopFrame ==
    (NoSession /\ pc' = pc) => UNCHANGED AllButStopFlag

(* C12: stop_stream_prices() called while no session is active triggers no
   callback and no network activity and changes nothing but the flag, and the
   session started afterwards clears the flag at line 110, so it connects,
   sends its batches and enters the receive loop as if the call had not
   happened. *)
C12_IdleStopIsNoOp == []C12_FlagClearedAtStart /\ [][C12_IdleStopFrame]_vars

\* A session that was started after a stop made while no session was active
\* has sent its batch and is waiting in its receive
C12_Witness ==
    \E t \in Callers :
        /\ idle_stop
        /\ pc[t] = "recv"
        /\ Len(Sent(t)) = 1
        /\ Positions(t, "stop") = {}

-----------------------------------------------------------------------------
(* C14: the Stop Flag is false from the start of a session (past line 110)
   until a stop is requested or the session's end is decided, and it is true
   whenever no session is running, whatever ended the last one. *)
C14_StopFlagLifecycle ==
    /\ \A t \in Callers :
          (pc[t] \in {"gh_check", "login_post", "login_set", "gh_return", "connect",
                      "build", "send", "recv", "dispatch"}
             /\ op[t] = "stream_prices" /\ Positions(t, "stop") = {}) => ~stop_streaming
    /\ (\A t \in Callers : ~Streaming(t)) => stop_streaming

-----------------------------------------------------------------------------
(* C15: in one stream_prices invocation on_error is invoked at most once, and
   once it has been invoked the invocation is over: no login, connect, send,
   receive or on_message follows it in the history of that invocation. *)
C15_FailureIsTerminal ==
    \A t \in Callers :
        /\ Cardinality(Positions(t, "on_error")) <= 1
        /\ \A k \in Positions(t, "on_error") :
              /\ pc[t] \in {"done", "raised", "idle"}
              /\ \A j \in (k + 1)..Len(log[t]) : log[t][j].ev = "stop"

\* A session failed in its receive loop after a message, reported it and is over
C15_Witness ==
    \E t \in Callers :
        /\ Cardinality(Positions(t, "on_error")) = 1
        /\ Positions(t, "on_message") # {}
        /\ Positions(t, "recv_failed") # {}
        /\ pc[t] = "idle"

-----------------------------------------------------------------------------
\* The failure that ended the session of t before its receive loop, if any:
\* where it happened
EarlyFailure(t) ==
    IF \E k \in Positions(t, "login") : log[t][k].status # 200 THEN "login"
    ELSE IF \E k \in Positions(t, "connect") : log[t][k].status # 101 THEN "connect"
    ELSE IF Positions(t, "send_failed") # {} THEN "send"
    ELSE "none"

(* C16: after a failed login the connection is never opened; after a failed
   connect nothing is sent; after the failed send of a batch no later batch
   is sent; and in each case the receive loop is never entered, on_message is
   never invoked, and on_error is invoked once (exactly once by the time the
   session has ended) with the failure. *)
C16_EarlyFailureAborts ==
    \A t \in Callers :
        (op[t] = "stream_prices" /\ EarlyFailure(t) # "none") =>
            /\ EarlyFailure(t) = "login" => Positions(t, "connect") = {}
            /\ EarlyFailure(t) \in {"login", "connect"} => Positions(t, "send") = {}
            /\ \A k \in Positions(t, "send_failed") : \A j \in Positions(t, "send") : j < k
            /\ Cardinality(Positions(t, "send_failed")) <= 1
            /\ \A e \in LoopEvents : Positions(t, e) = {}
            /\ pc[t] \in {"except_exception", "except_invalid_status", "done", "raised", "idle"}
            /\ Cardinality(Positions(t, "on_error")) <= 1
            /\ \A k \in Positions(t, "on_error") :
                  log[t][k].error = exc[t] /\ log[t][k].error.origin = EarlyFailure(t)
            /\ pc[t] \in {"done", "raised", "idle"} =>
                  Cardinality(Positions(t, "on_error")) = 1

\* The second of three batches failed to send; the session reported it and ended
C16_Witness ==
    \E t \in Callers :
        /\ Len(products[t]) * Len(terms[t]) > 2 * MAX_PRODUCTS_PER_SUBSCRIPTION
        /\ Len(Sent(t)) = 1
        /\ Positions(t, "send_failed") # {}
        /\ Cardinality(Positions(t, "on_error")) = 1
        /\ pc[t] = "done"

-----------------------------------------------------------------------------
\* The session of t opened its connection
Opened(t) ==
    op[t] = "stream_prices" /\ \E k \in Positions(t, "connect") : log[t][k].status = 101

(* C18: a session that opened its connection has closed it when stream_prices
   has returned or raised, whatever ended it, and the connection is already
   closed when an except clause runs and when on_error is invoked. *)
C18_ConnectionClosedAtEnd ==
    \A t \in Callers :
        Opened(t) =>
            /\ pc[t] \in {"done", "raised", "idle", "except_exception",
                          "except_invalid_status"} => ws[t] = "closed"
            /\ \A k \in Positions(t, "on_error") :
                  \E j \in Positions(t, "close") : j < k
            /\ Cardinality(Positions(t, "close")) <= 1

\* A session stopped by the flag has returned with its connection closed
C18_Witness ==
    \E t \in Callers :
        /\ Opened(t)
        /\ pc[t] = "done"
        /\ Positions(t, "on_error") = {}
        /\ Positions(t, "on_message") # {}
        /\ ws[t] = "closed"

-----------------------------------------------------------------------------
\* The statements of stream_prices before its receive loop
BeforeLoop == {"reset", "gh_check", "login_post", "login_set", "gh_return",
               "connect", "build", "send"}

(* C19, its first half: after a stop_stream_prices() call made from another
   execution context while stream_prices was before its receive loop, that
   session invokes on_message never. *)
C19_EarlyStopNotLost ==
    \A t \in Callers : \A k \in Positions(t, "stop") :
        log[t][k].at \in BeforeLoop => Positions(t, "on_message") = {}

-----------------------------------------------------------------------------
\* stream_prices of t is over: it has returned or is about to
Ended(t) == pc[t] \in {"done", "raised", "idle"}

\* The session of t is in its receive loop
InLoop(t) ==
    op[t] = "stream_prices" /\ pc[t] \in {"loop", "recv", "dispatch", "dispatch_more"}

(* C20: when the Stop Flag is set while the session is in its receive loop,
   stream_prices eventually returns, provided the thread keeps running and
   every pending receive ends; and once the connection of a session has been
   closed, by whichever side, the session ends rather than waits. *)
C20_StopTerminates ==
    \A t \in {"main"} :
        /\ (InLoop(t) /\ stop_streaming) ~> Ended(t)
        /\ (Streaming(t) /\ ws[t] = "closed") ~> Ended(t)

\* A session that streamed past the recorded messages was stopped while a
\* receive was pending or a later message was handled, and returned without error
C20_Witness ==
    \E t \in Callers :
        /\ pc[t] = "done"
        /\ NumReceived(t) = MaxMsgs
        /\ \E k \in Positions(t, "stop") : log[t][k].at \in {"recv", "dispatch_more"}
        /\ Positions(t, "on_error") = {}

-----------------------------------------------------------------------------
(* C11: in no reachable state are two sessions of one client active at the
   same time, sharing the Stop Flag: a second stream_prices invocation made
   while a session is active is rejected or waits for that session to end. *)
C11_OneSessionAtATime ==
    Cardinality({t \in Callers : Streaming(t)}) <= 1

-----------------------------------------------------------------------------
\* The tokens that successful logins have returned so far
IssuedTokens == 1..issued

\* C17, the state part: the cached token is absent or one issued token, every
\* header returned carries an issued token, and no thread logs in successfully
\* more than once
C17_TokenValid ==
    /\ token = None \/ token \in IssuedTokens
    /\ \A t \in Callers : \A k \in Positions(t, "header") :
          log[t][k].header.scheme = "Bearer" /\ log[t][k].header.token \in IssuedTokens
    /\ issued <= Cardinality(Callers)

\* C17, the step part: the cached token changes only at line 36 of a thread whose
\* login answered 200, and becomes exactly the token that login returned
C17_TokenReplaced ==
    token' # token =>
        \E t \in Callers :
            /\ pc[t] = "login_set"
            /\ token' = resp[t]
            /\ \E k \in Positions(t, "login") :
                  log[t][k].status = 200 /\ log[t][k].token = token'

(* C17: under any interleaving of _get_headers and login calls of two threads
   on one client, the cached token is at every moment absent or exactly the
   token one successful login returned, every returned header carries such a
   token, and the race costs only redundant logins (at most one per thread). *)
C17_TokenRaceIsBenign == []C17_TokenValid /\ [][C17_TokenReplaced]_vars

\* Both threads found no token and logged in; the second login replaced the
\* token of the first, and both threads returned a header
C17_Witness ==
    /\ issued = 2
    /\ token \in IssuedTokens
    /\ \A t \in Callers : Positions(t, "header") # {} /\ Positions(t, "login") # {}
    /\ \E t \in Callers : op[t] = "stream_prices"
    /\ \E t \in Callers : op[t] = "get_data_permissions"

=============================================================================
